---- MODULE Spec2Model ----
(***************************************************************************)
(* Market Snapshot API: the request handler get_market_snapshot (main.py), *)
(* the orchestrator get_snapshot and the heuristic _generate_reasoning     *)
(* (service.py).                                                           *)
(*                                                                         *)
(* Numbers.  A price is an integer counting thousandths of the currency    *)
(* unit (0.004 is 4, 2.00 is 2000).  A beta is an integer counting         *)
(* hundredths (0.85 is 85).  A percentage is an exact fraction             *)
(* [num, den] with den >= 0; den = 0 is the infinity numpy's float64       *)
(* division by zero yields, carrying the sign of num.  Floating-point      *)
(* representation error is not modelled: arithmetic is exact.  The quotes  *)
(* fetched carry no NaN and no negative price.                             *)
(*                                                                         *)
(* A value found in the provider's info dict is a record                   *)
(* [tag, val]: tag "missing" (no such key), "null" (None) or "num".        *)
(***************************************************************************)
EXTENDS Integers, Sequences, FiniteSets, TLC

VARIABLES pc, info, history, raised, current_price, previous_close,
          change_percent, snapshot, status,
          arg_change_pct, arg_beta, reasoning

vars == <<pc, info, history, raised, current_price, previous_close,
          change_percent, snapshot, status,
          arg_change_pct, arg_beta, reasoning>>

callVars == <<arg_change_pct, arg_beta, reasoning>>

----------------------------------------------------------------------------
(* Bounds and input sets *)

MaxHist == 2

Missing == [tag |-> "missing", val |-> 0]

Null == [tag |-> "null", val |-> 0]

Num(v) == [tag |-> "num", val |-> v]

Frac(n, d) == [num |-> n, den |-> d]

CurrentPriceInputs == {Null, Num(0), Num(4), Num(1990), Num(2000), Num(2200)}

RegularPriceInputs == {Null, Num(0), Num(1960), Num(2000)}

PreviousCloseInputs == {Null, Num(0), Num(4), Num(1990), Num(2000)}

VolumeInputs == {Null, Num(1500)}

BetaInputs == {Missing, Null, Num(0), Num(82), Num(85), Num(150), Num(151)}

CloseInputs == {0, 1960, 2000}

HistoryInputs == UNION {[1..n -> CloseInputs] : n \in 0..MaxHist}

InfoInputs == [currentPrice : CurrentPriceInputs, regularMarketPrice : RegularPriceInputs,
               previousClose : PreviousCloseInputs, volume : VolumeInputs, beta : BetaInputs]

ChangePctInputs == {Frac(n, 1000) : n \in {-3001, -3000, -2999, -2500, -501, -500, -499, 0,
                                           499, 500, 501, 2500, 2999, 3000, 3001}}

FetchFailures == {"ValueError", "Exception"}

----------------------------------------------------------------------------
(* Python semantics used by the code *)

\* bool(x) of a dict value: None and 0 are falsy
Truthy(x) == x.tag = "num" /\ x.val # 0

\* a or b
PyOr(a, b) == IF Truthy(a) THEN a ELSE b

\* info.get(key)
Get(x) == IF x.tag = "missing" THEN Null ELSE x

\* info.get(key, default)
GetDefault(x, d) == IF x.tag = "missing" THEN d ELSE x

\* x > k and x < k for fractions with non-negative denominators
FracGT(x, k) == x.num * k.den > k.num * x.den

FracLT(x, k) == x.num * k.den < k.num * x.den

\* nearest integer to n / d (d > 0), ties to the even neighbour
RoundHalfEven(n, d) ==
    LET q == n \div d
        r == n % d
    IN  IF 2 * r < d THEN q
        ELSE IF 2 * r > d THEN q + 1
        ELSE IF q % 2 = 0 THEN q ELSE q + 1

\* round(price, 2): the nearest hundredth, still counted in thousandths
RoundPrice(m) == 10 * RoundHalfEven(m, 10)

\* round(change_percent, 2): hundredths of a percent; infinity stays infinity
RoundPct(x) == IF x.den = 0 THEN x ELSE Frac(RoundHalfEven(100 * x.num, x.den), 100)

----------------------------------------------------------------------------
(* service.py *)

\* history['Close'].iloc[-k]
CloseFromEnd(hist, k) == Num(hist[Len(hist) + 1 - k])

\* the regular market price tried before the live price
ResolveCurrentPriceRegularFirst(inf, hist) ==
    LET quoted == PyOr(Get(inf.regularMarketPrice), Get(inf.currentPrice))
    IN  IF ~Truthy(quoted) /\ Len(hist) # 0 THEN CloseFromEnd(hist, 1) ELSE quoted

\* the previous close accepted as a last price source
ResolveCurrentPriceFromPreviousClose(inf, hist) ==
    LET quoted == PyOr(Get(inf.currentPrice), Get(inf.regularMarketPrice))
        found == IF ~Truthy(quoted) /\ Len(hist) # 0 THEN CloseFromEnd(hist, 1) ELSE quoted
    IN  PyOr(found, Get(inf.previousClose))

ResolveCurrentPrice(inf, hist) ==
    LET quoted == PyOr(Get(inf.currentPrice), Get(inf.regularMarketPrice))
    IN  IF ~Truthy(quoted) /\ Len(hist) # 0 THEN CloseFromEnd(hist, 1) ELSE quoted

\* the history tried before the explicit previous close
ResolvePreviousCloseHistoryFirst(inf, hist, cur) ==
    IF Len(hist) > 1 THEN CloseFromEnd(hist, 2) ELSE PyOr(Get(inf.previousClose), cur)

ResolvePreviousClose(inf, hist, cur) ==
    PyOr(Get(inf.previousClose), IF Len(hist) > 1 THEN CloseFromEnd(hist, 2) ELSE cur)

\* the difference taken the wrong way round
ChangePercentSwapped(c, p) ==
    IF p < 0 THEN Frac(-100 * (p - c), -p) ELSE Frac(100 * (p - c), p)

\* ((current_price - previous_close) / previous_close) * 100
ChangePercent(c, p) ==
    IF p < 0 THEN Frac(-100 * (c - p), -p) ELSE Frac(100 * (c - p), p)

\* the 2% bands of the docstring instead of the 3% bands of the code
GenerateThesisDocstringBands(change_pct) ==
    IF FracGT(change_pct, Frac(2, 1)) THEN "StrongBullish"
    ELSE IF FracGT(change_pct, Frac(1, 2)) THEN "ModestBullish"
    ELSE IF FracLT(change_pct, Frac(-2, 1)) THEN "StrongBearish"
    ELSE IF FracLT(change_pct, Frac(-1, 2)) THEN "Bearish"
    ELSE "Neutral"

GenerateThesis(change_pct) ==
    IF FracGT(change_pct, Frac(3, 1)) THEN "StrongBullish"
    ELSE IF FracGT(change_pct, Frac(1, 2)) THEN "ModestBullish"
    ELSE IF FracLT(change_pct, Frac(-3, 1)) THEN "StrongBearish"
    ELSE IF FracLT(change_pct, Frac(-1, 2)) THEN "Bearish"
    ELSE "Neutral"

\* the 0.8 low-risk bound of the docstring instead of 0.85
GenerateRiskDocstringBands(beta) ==
    LET beta_val == IF Truthy(beta) THEN beta.val ELSE 100
    IN  IF beta_val > 150 THEN "HIGH"
        ELSE IF beta_val < 80 THEN "LOW"
        ELSE "MEDIUM"

GenerateRisk(beta) ==
    LET beta_val == IF Truthy(beta) THEN beta.val ELSE 100
    IN  IF beta_val > 150 THEN "HIGH"
        ELSE IF beta_val < 85 THEN "LOW"
        ELSE "MEDIUM"

GenerateReasoning(change_pct, beta) ==
    [thesis |-> GenerateThesis(change_pct), risk |-> GenerateRisk(beta)]

NoSnapshot == [price |-> 0, change_percent |-> Frac(0, 1), volume |-> 0,
               thesis |-> "", risk |-> ""]

NoReasoning == [thesis |-> "", risk |-> ""]

\* the classifier fed the rounded change_percent
GetSnapshotClassifiesRounded(inf, hist) ==
    LET cur == ResolveCurrentPrice(inf, hist)
    IN  IF ~Truthy(cur)
        THEN [raises |-> "ValueError", current_price |-> cur, previous_close |-> Null,
              change_percent |-> Frac(0, 1), snapshot |-> NoSnapshot]
        ELSE LET prev == ResolvePreviousClose(inf, hist, cur)
                 pct == ChangePercent(cur.val, prev.val)
                 rsn == GenerateReasoning(RoundPct(pct), GetDefault(inf.beta, Num(100)))
             IN  [raises |-> "", current_price |-> cur, previous_close |-> prev,
                  change_percent |-> pct,
                  snapshot |-> [price |-> RoundPrice(cur.val),
                                change_percent |-> RoundPct(pct),
                                volume |-> PyOr(Get(inf.volume), Num(0)).val,
                                thesis |-> rsn.thesis, risk |-> rsn.risk]]

\* get_snapshot after the fetch: what it raises or returns, with its locals
GetSnapshot(inf, hist) ==
    LET cur == ResolveCurrentPrice(inf, hist)
    IN  IF ~Truthy(cur)
        THEN [raises |-> "ValueError", current_price |-> cur, previous_close |-> Null,
              change_percent |-> Frac(0, 1), snapshot |-> NoSnapshot]
        ELSE LET prev == ResolvePreviousClose(inf, hist, cur)
                 pct == ChangePercent(cur.val, prev.val)
                 rsn == GenerateReasoning(pct, GetDefault(inf.beta, Num(100)))
             IN  [raises |-> "", current_price |-> cur, previous_close |-> prev,
                  change_percent |-> pct,
                  snapshot |-> [price |-> RoundPrice(cur.val),
                                change_percent |-> RoundPct(pct),
                                volume |-> PyOr(Get(inf.volume), Num(0)).val,
                                thesis |-> rsn.thesis, risk |-> rsn.risk]]

----------------------------------------------------------------------------
(* One request: GET /api/snapshot *)

NoInfo == [currentPrice |-> Missing, regularMarketPrice |-> Missing,
           previousClose |-> Missing, volume |-> Missing, beta |-> Missing]

NoRaise == [type |-> "", origin |-> ""]

Init ==
    /\ pc = "request"
    /\ info = NoInfo
    /\ history = <<>>
    /\ raised = NoRaise
    /\ current_price = Null
    /\ previous_close = Null
    /\ change_percent = Frac(0, 1)
    /\ snapshot = NoSnapshot
    /\ status = 0
    /\ arg_change_pct = Frac(0, 1)
    /\ arg_beta = Null
    /\ reasoning = NoReasoning

\* _fetch_data returns the provider's info dict and 5-day history
FetchData ==
    /\ pc = "request"
    /\ \E inf \in InfoInputs, hist \in HistoryInputs :
          /\ info' = inf
          /\ history' = hist
    /\ pc' = "fetched"
    /\ UNCHANGED <<raised, current_price, previous_close, change_percent, snapshot, status>>
    /\ UNCHANGED callVars

\* the yfinance calls inside _fetch_data raise; nothing in service.py catches
FetchRaises ==
    /\ pc = "request"
    /\ \E t \in FetchFailures : raised' = [type |-> t, origin |-> "fetch"]
    /\ pc' = "raised"
    /\ UNCHANGED <<info, history, current_price, previous_close, change_percent, snapshot, status>>
    /\ UNCHANGED callVars

\* get_snapshot, lines 23-52
Derive ==
    /\ pc = "fetched"
    /\ LET r == GetSnapshot(info, history)
       IN  /\ current_price' = r.current_price
           /\ previous_close' = r.previous_close
           /\ change_percent' = r.change_percent
           /\ snapshot' = r.snapshot
           /\ raised' = IF r.raises = "" THEN NoRaise
                        ELSE [type |-> r.raises, origin |-> "core"]
           /\ pc' = IF r.raises = "" THEN "returned" ELSE "raised"
    /\ UNCHANGED <<info, history, status>>
    /\ UNCHANGED callVars

\* return snapshot
RespondOk ==
    /\ pc = "returned"
    /\ status' = 200
    /\ pc' = "done"
    /\ UNCHANGED <<info, history, raised, current_price, previous_close, change_percent, snapshot>>
    /\ UNCHANGED callVars

\* except ValueError
RespondNotFound ==
    /\ pc = "raised"
    /\ raised.type = "ValueError"
    /\ status' = 404
    /\ pc' = "done"
    /\ UNCHANGED <<info, history, raised, current_price, previous_close, change_percent, snapshot>>
    /\ UNCHANGED callVars

\* except Exception
RespondUnavailable ==
    /\ pc = "raised"
    /\ raised.type # "ValueError"
    /\ status' = 503
    /\ pc' = "done"
    /\ UNCHANGED <<info, history, raised, current_price, previous_close, change_percent, snapshot>>
    /\ UNCHANGED callVars

Next ==
    \/ FetchData
    \/ FetchRaises
    \/ Derive
    \/ RespondOk
    \/ RespondNotFound
    \/ RespondUnavailable

Spec == Init /\ [][Next]_vars

----------------------------------------------------------------------------
(* _generate_reasoning called on its own *)

InitReasoning ==
    /\ pc = "call"
    /\ info = NoInfo
    /\ history = <<>>
    /\ raised = NoRaise
    /\ current_price = Null
    /\ previous_close = Null
    /\ change_percent = Frac(0, 1)
    /\ snapshot = NoSnapshot
    /\ status = 0
    /\ arg_change_pct \in ChangePctInputs
    /\ arg_beta \in BetaInputs \ {Missing}
    /\ reasoning = NoReasoning

CallGenerateReasoning ==
    /\ pc = "call"
    /\ reasoning' = GenerateReasoning(arg_change_pct, arg_beta)
    /\ pc' = "called"
    /\ UNCHANGED <<info, history, raised, current_price, previous_close, change_percent,
                   snapshot, status, arg_change_pct, arg_beta>>

NextReasoning == CallGenerateReasoning

SpecReasoning == InitReasoning /\ [][NextReasoning]_vars

----------------------------------------------------------------------------
(* Properties *)

\* a number is there, zero included
Present(x) == x.tag = "num"

\* a number other than zero is there
Usable(x) == x.tag = "num" /\ x.val # 0

\* get_snapshot got past the fetch and ran to its raise or its return
Derived == pc \in {"returned", "raised", "done"} /\ raised.origin # "fetch"

\* get_snapshot returned a snapshot
Succeeded == Derived /\ raised = NoRaise

NoPriceData == [type |-> "ValueError", origin |-> "core"]

LastClose == Num(history[Len(history)])

SecondLastClose == Num(history[Len(history) - 1])

Bullish == {"StrongBullish", "ModestBullish"}

Bearish == {"StrongBearish", "Bearish"}

IsZeroPct(x) == x.den # 0 /\ x.num = 0

\* the band of the thesis table a percentage n / d (d >= 0) falls in
ThesisBand(n, d) ==
    CASE n > 3 * d -> "StrongBullish"
      [] 2 * n > d /\ n <= 3 * d -> "ModestBullish"
      [] n < -3 * d -> "StrongBearish"
      [] 2 * n < -d /\ n >= -3 * d -> "Bearish"
      [] 2 * n >= -d /\ 2 * n <= d -> "Neutral"

\* the band of the risk table a beta falls in, in hundredths
RiskBand(b) ==
    CASE b > 150 -> "HIGH"
      [] b < 85 -> "LOW"
      [] b >= 85 /\ b <= 150 -> "MEDIUM"

\* C1 as stated: whenever the live price, the regular market price or a
\* non-empty history is present, get_snapshot returns a snapshot and the
\* price in it is strictly positive.  "Present" is read here in the way most
\* favourable to the claim: a number other than zero, a last close other
\* than zero.
C1_PresentSourceGivesPositivePrice ==
    (Derived /\ (Usable(info.currentPrice) \/ Usable(info.regularMarketPrice)
                    \/ (Len(history) > 0 /\ Usable(LastClose))))
        => (Succeeded /\ snapshot.price > 0)

\* C2: with the live price absent, the regular market price absent and the
\* history empty, get_snapshot raises ValueError and builds no snapshot,
\* whatever previous close, volume and beta are.
C2_NoSourceRaisesNoPriceData ==
    (Derived /\ ~Present(info.currentPrice) /\ ~Present(info.regularMarketPrice)
        /\ Len(history) = 0)
        => (raised = NoPriceData /\ snapshot = NoSnapshot /\ pc # "returned"
            /\ (pc = "done" => status = 404))

C2_Witness ==
    /\ pc = "done" /\ raised = NoPriceData
    /\ ~Present(info.currentPrice) /\ ~Present(info.regularMarketPrice) /\ Len(history) = 0
    /\ Usable(info.previousClose) /\ Usable(info.volume) /\ Usable(info.beta)

\* C3 as stated: the resolved price is the live price whenever that is
\* present, else the regular market price whenever that is present, else the
\* last close whenever the history is non-empty.
C3_PriorityByPresence ==
    Derived =>
        /\ Present(info.currentPrice) => current_price = info.currentPrice
        /\ (~Present(info.currentPrice) /\ Present(info.regularMarketPrice))
              => current_price = info.regularMarketPrice
        /\ (~Present(info.currentPrice) /\ ~Present(info.regularMarketPrice)
               /\ Len(history) > 0)
              => current_price = LastClose

\* C3 amended: the resolved price is the live price whenever that is present
\* and non-zero, else the regular market price whenever that is present and
\* non-zero, else the last close whenever the history is non-empty; a source
\* is passed over exactly when it is absent or zero.
C3_PriorityByUsability ==
    Derived =>
        /\ Usable(info.currentPrice) => current_price = info.currentPrice
        /\ (~Usable(info.currentPrice) /\ Usable(info.regularMarketPrice))
              => current_price = info.regularMarketPrice
        /\ (~Usable(info.currentPrice) /\ ~Usable(info.regularMarketPrice)
               /\ Len(history) > 0)
              => current_price = LastClose

C3_Witness ==
    /\ Succeeded
    /\ info.currentPrice = Num(0) /\ Usable(info.regularMarketPrice)
    /\ Len(history) > 0 /\ LastClose # info.regularMarketPrice
    /\ current_price = info.regularMarketPrice

\* C4 as stated: the previous close is the explicit field whenever that is
\* present, else the second-last close whenever the history has two entries,
\* else the resolved price, and then the change is exactly 0 and the thesis
\* Neutral.
C4_PreviousCloseByPresence ==
    Succeeded =>
        /\ Present(info.previousClose) => previous_close = info.previousClose
        /\ (~Present(info.previousClose) /\ Len(history) >= 2)
              => previous_close = SecondLastClose
        /\ (~Present(info.previousClose) /\ Len(history) < 2)
              => /\ previous_close = current_price
                 /\ IsZeroPct(snapshot.change_percent)
                 /\ snapshot.thesis = "Neutral"

\* C4 amended: the previous close is the explicit field whenever that is
\* present and non-zero, else the second-last close whenever the history has
\* two entries, else the resolved price, and then get_snapshot returns, the
\* change is exactly 0 and the thesis Neutral.
C4_PreviousCloseByUsability ==
    (Derived /\ Usable(current_price)) =>
        /\ Succeeded
        /\ Usable(info.previousClose) => previous_close = info.previousClose
        /\ (~Usable(info.previousClose) /\ Len(history) >= 2)
              => previous_close = SecondLastClose
        /\ (~Usable(info.previousClose) /\ Len(history) < 2)
              => /\ previous_close = current_price
                 /\ IsZeroPct(change_percent)
                 /\ IsZeroPct(snapshot.change_percent)
                 /\ snapshot.thesis = "Neutral"

C4_Witness ==
    /\ Succeeded
    /\ info.previousClose = Num(0) /\ Len(history) >= 2
    /\ previous_close = SecondLastClose /\ previous_close # current_price
    /\ Usable(previous_close)

C7_FetchFailureIsUnavailable ==
    pc = "done" =>
        /\ status = 404 => raised = NoPriceData
        /\ raised.origin = "fetch" => status = 503

\* C8 as stated: when the resolved previous close is zero, get_snapshot ends
\* in its domain failure and returns no snapshot with an infinite change.
C8_ZeroPreviousCloseFails ==
    (Derived /\ previous_close = Num(0))
        => (raised = NoPriceData /\ snapshot = NoSnapshot)

\* C9: the thesis of a snapshot is the band of the unrounded change
\* 100 * (current - previous) / previous, also when the reported, rounded
\* change_percent lies in another band.
C9_ThesisFromUnroundedChange ==
    Succeeded =>
        LET c == current_price.val
            p == previous_close.val
        IN  snapshot.thesis = IF p >= 0 THEN ThesisBand(100 * (c - p), p)
                              ELSE ThesisBand(-100 * (c - p), -p)

C9_Witness ==
    /\ Succeeded
    /\ snapshot.change_percent = Frac(50, 100)
    /\ snapshot.thesis = "ModestBullish"

\* C10: with the resolved price and the resolved previous close both
\* strictly positive, a bullish thesis comes only with price > previous
\* close, a bearish one only with price < previous close, and equal prices
\* give Neutral.
C10_ThesisFollowsDirection ==
    (Succeeded /\ current_price.val > 0 /\ previous_close.val > 0) =>
        /\ snapshot.thesis \in Bullish => current_price.val > previous_close.val
        /\ snapshot.thesis \in Bearish => current_price.val < previous_close.val
        /\ current_price.val = previous_close.val => snapshot.thesis = "Neutral"

C10_Witness ==
    /\ Succeeded
    /\ current_price.val > 0 /\ previous_close.val > 0
    /\ current_price.val < previous_close.val
    /\ snapshot.thesis = "Bearish"

====
